---- MODULE Spec2Model ----
(***************************************************************************)
(* Model of the page render cache (PageCache), its command channel         *)
(* (SyncCacheCommandChannel) of src/src/cache.rs.                          *)
(***************************************************************************)
EXTENDS Integers, Sequences, FiniteSets, TLC

(***************************************************************************)
(* Bounds of the model.                                                    *)
(***************************************************************************)
\* The document provides pages 0 .. NumPages-1.
NumPages == 3
\* max_num_stored_pages is drawn from 0 .. MaxStored.
MaxStored == 3
\* Longest batch of one send_cache_commands call.
MaxBatch == 2
\* Largest number of pending cache commands.
MaxQueue == 4
\* Largest number of pending retrieve commands.
MaxRetrieve == 2
\* Commands the holder of the sender leaves queued for the loop: retrieve
\* requests, and cache jobs (two per page sent).
MaxWorkerRetrieve == 1
MaxWorkerQueue == 2
\* Largest number of pages of the document a DocumentCanvas shows, and the
\* largest page number it is let reach.
MaxDocumentPages == 12

(***************************************************************************)
(* Program constants.                                                      *)
(***************************************************************************)
\* cache.rs:43, the height get_page_or_cache renders at.
FallbackHeight == 100
\* cache.rs:220, the height of the low-resolution job pushed to the front.
PlaceholderHeight == 10
\* usize arithmetic is modular.  The program's usize is 64 bits wide; the model
\* keeps 16 bits, far above every page number it reaches.
UsizeModulus == 65536
\* The capacity spawn_sync_cache gives its cache: PageCache::new(document, 20).
SpawnedMaxNumStoredPages == 20

\* Page numbers callers pass: every page of the document and one past it
\* (GetCurrentTwoPages may then ask for a second page past the end).
PageArgs == 0..NumPages
\* Heights direct callers of cache_page pass.
Heights == {PlaceholderHeight, FallbackHeight}

\* Page numbers and display heights of the commands sent through the channel.
QueuePages == {0, 1}
SendHeights == {PlaceholderHeight, 200}

None == [kind |-> "None"]
NoCommand == [type |-> "None"]

VARIABLES
  \* PageCache (cache.rs:17-22)
  pages,                       \* BTreeMap: page number -> [height, handle]
  max_num_stored_pages,
  last_requested_page_number,
  \* observations of the last call on the PageCache
  lastCall,                    \* [op, page, height, prev]: the call, and the height
                               \* of the cache_page call on the same page right
                               \* before it (-1 if there was none)
  response,                    \* what the call returned
  renders,                     \* renderer invocations of the call
  evictions,                   \* evictions the call ran, in order
  peak,                        \* largest |pages| during the call
  \* SyncCacheCommandChannel (cache.rs:175-178)
  retrieve_commands,           \* Vec<RetrievePagesCommand>
  cache_commands,              \* VecDeque<CachePageCommand>
  \* observations of the channel
  received,                    \* what the last receive returned
  qlast,                       \* the last channel operation
  soloBatch,                   \* the batch sent into an empty channel, if any
  drained,                     \* commands received since that batch
  \* spawn_sync_cache (cache.rs:245-274)
  strong_count,                \* Rc::strong_count(&channel)
  sender,                      \* the SyncCacheCommandSender returned: "held" or "dropped"
  loop,                        \* the spawned future: "check" (at the loop test),
                               \* "await" (in the 1 ms timeout) or "returned"
  \* observations of the loop
  delivered,                   \* what the last iteration passed to the receiver
                               \* callback, None if it did not invoke it
  after_drop,                  \* commands processed since the sender was dropped
  \* DocumentCanvas (ui.rs:78-83)
  num_pages,
  current_page_number,
  \* the build and what became of the canvas
  overflow_checks,             \* the build traps on arithmetic overflow (debug
                               \* profile) or wraps around (release profile)
  canvas_status                \* "ok", "wrapped" (a subtraction has wrapped
                               \* around) or "panicked" (it has trapped)

cacheVars == <<pages, max_num_stored_pages, last_requested_page_number,
               lastCall, response, renders, evictions, peak>>
queueVars == <<retrieve_commands, cache_commands, received, qlast, soloBatch, drained>>
workerVars == <<strong_count, sender, loop, delivered, after_drop>>
canvasVars == <<num_pages, current_page_number, overflow_checks, canvas_status>>
vars == <<cacheVars, queueVars, workerVars, canvasVars>>

(***************************************************************************)
(* Helpers on the ordered map.                                             *)
(***************************************************************************)
EmptyMap == [x \in {} |-> None]

MapInsert(f, k, v) == [x \in (DOMAIN f) \cup {k} |-> IF x = k THEN v ELSE f[x]]

MapRemove(f, k) == [x \in (DOMAIN f) \ {k} |-> f[x]]

MinKey(f) == CHOOSE k \in DOMAIN f : \A j \in DOMAIN f : k <= j

MaxKey(f) == CHOOSE k \in DOMAIN f : \A j \in DOMAIN f : k >= j

\* usize::abs_diff
AbsDiff(a, b) == IF a >= b THEN a - b ELSE b - a

Len0(f) == Cardinality(DOMAIN f)

(***************************************************************************)
(* External collaborators.                                                 *)
(***************************************************************************)
\* document.page(i): Some exactly for the pages the document has.
DocumentPage(p) == p \in 0..(NumPages - 1)

\* Rc::new(texture): a new shared handle, different from every handle alive.
\* A handle is named by the page it shows and a version that changes each time
\* the page's entry is replaced, so it differs from the handle it replaces and
\* from the handles of all other pages.
FreshHandle(pgs, page_number) ==
  [page |-> page_number,
   version |-> IF page_number \in DOMAIN pgs
                 THEN 1 - pgs[page_number].handle.version
                 ELSE 0]

\* draw::draw_pages_to_texture(&pages, height): a bitmap of the requested height.
DrawPagesToTexture(pgs, page_number, height) ==
  [height |-> height, handle |-> FreshHandle(pgs, page_number)]

(***************************************************************************)
(* PageCache (cache.rs:24-141).  Every operator returns the state the      *)
(* method leaves and what it returned.                                     *)
(***************************************************************************)
\* PageCache::get_page without its write of last_requested_page_number:
\* self.pages.get(&page_number).map(Rc::clone)
get_page(pgs, page_number) ==
  IF page_number \in DOMAIN pgs
    THEN [kind |-> "Some", page |-> pgs[page_number].handle]
    ELSE None

\* A comparison the wrong way round: the farther extreme is kept.
keeps_max_inverted(anchor, min_cached_page_number, max_cached_page_number) ==
  AbsDiff(anchor, min_cached_page_number) < AbsDiff(anchor, max_cached_page_number)

\* The test of remove_most_distant_page (cache.rs:98-104): is the highest key
\* the one to re-insert?
keeps_max(anchor, min_cached_page_number, max_cached_page_number) ==
  AbsDiff(anchor, min_cached_page_number) > AbsDiff(anchor, max_cached_page_number)

\* The key of the closer extreme is re-inserted with the bitmap of the other one.
remove_most_distant_page_wrong_bitmap(pgs, anchor) ==
  LET min_cached_page_number == MinKey(pgs)
      afterFirst == MapRemove(pgs, min_cached_page_number)
      max_cached_page_number == MaxKey(afterFirst)
      rest == MapRemove(afterFirst, max_cached_page_number)
      keepMax == keeps_max(anchor, min_cached_page_number, max_cached_page_number)
      kept == IF keepMax THEN max_cached_page_number ELSE min_cached_page_number
      other == IF keepMax THEN min_cached_page_number ELSE max_cached_page_number
      after == MapInsert(rest, kept, pgs[other])
  IN  [ok |-> TRUE, pages |-> after,
       ev |-> <<[ok |-> TRUE, anchor |-> anchor, before |-> pgs, after |-> after]>>]

\* PageCache::remove_most_distant_page.  ev records the call: whether it
\* returned Ok, the anchor it measured from and the map before and after it.
remove_most_distant_page(pgs, anchor) ==
  IF Len0(pgs) = 0
    THEN [ok |-> FALSE, pages |-> pgs,
          ev |-> <<[ok |-> FALSE, anchor |-> anchor, before |-> pgs, after |-> pgs]>>]
    ELSE
      LET min_cached_page_number == MinKey(pgs)
          afterFirst == MapRemove(pgs, min_cached_page_number)
      IN  IF Len0(afterFirst) = 0
            THEN [ok |-> FALSE, pages |-> afterFirst,
                  ev |-> <<[ok |-> FALSE, anchor |-> anchor, before |-> pgs,
                            after |-> afterFirst]>>]
            ELSE
              LET max_cached_page_number == MaxKey(afterFirst)
                  rest == MapRemove(afterFirst, max_cached_page_number)
                  kept == IF keeps_max(anchor, min_cached_page_number,
                                       max_cached_page_number)
                            THEN max_cached_page_number
                            ELSE min_cached_page_number
                  after == MapInsert(rest, kept, pgs[kept])
              IN  [ok |-> TRUE, pages |-> after,
                   ev |-> <<[ok |-> TRUE, anchor |-> anchor, before |-> pgs,
                             after |-> after]>>]

\* The heights are compared the wrong way round.
already_cached_reversed(pgs, page_number, height) ==
  page_number \in DOMAIN pgs /\ pgs[page_number].height <= height

\* An equal height no longer counts as cached.
already_cached_strict(pgs, page_number, height) ==
  page_number \in DOMAIN pgs /\ pgs[page_number].height > height

\* The early return of cache_page (cache.rs:55-60).
already_cached(pgs, page_number, height) ==
  page_number \in DOMAIN pgs /\ pgs[page_number].height >= height

\* The floor of two entries is forgotten.
needs_eviction_no_floor(len, M) == len > M

\* An eviction threshold one too high.
needs_eviction_above_three(len, M) == len > M /\ len > 3

\* The test that runs the eviction (cache.rs:76).
needs_eviction(len, M) == len > M /\ len > 2

\* The notice hands out the replaced handle instead of the new one.
upgrade_response_previous(pgs, page_number, page) ==
  IF page_number \in DOMAIN pgs
    THEN [kind |-> "PageResolutionUpgraded",
          page_number |-> page_number, page |-> pgs[page_number].handle]
    ELSE None

\* A notice is returned for every render, first-time renders included.
upgrade_response_always(pgs, page_number, page) ==
  [kind |-> "PageResolutionUpgraded",
   page_number |-> page_number, page |-> page.handle]

\* The response of cache_page (cache.rs:70-74): pgs is the map before the
\* insert, page the bitmap inserted.
upgrade_response(pgs, page_number, page) ==
  IF page_number \in DOMAIN pgs
    THEN [kind |-> "PageResolutionUpgraded",
          page_number |-> page_number, page |-> page.handle]
    ELSE None

\* The document is not asked: a page it lacks is cached as a blank bitmap.
document_page_unchecked(page_number) == TRUE

\* cache.rs:64, the test `if let Some(page) = self.document.page(..)`.
document_page(page_number) == DocumentPage(page_number)

\* PageCache::cache_page
cache_page(pgs, anchor, M, page_number, height) ==
  IF already_cached(pgs, page_number, height)
    THEN [pages |-> pgs, response |-> None, renders |-> 0,
          evictions |-> <<>>, peak |-> Len0(pgs)]
    ELSE
      IF document_page(page_number)
        THEN
          LET page == DrawPagesToTexture(pgs, page_number, height)
              inserted == MapInsert(pgs, page_number, page)
              resp == upgrade_response(pgs, page_number, page)
          IN  IF needs_eviction(Len0(inserted), M)
                THEN LET r == remove_most_distant_page(inserted, anchor)
                     IN  [pages |-> r.pages, response |-> resp, renders |-> 1,
                          evictions |-> r.ev, peak |-> Len0(inserted)]
                ELSE [pages |-> inserted, response |-> resp, renders |-> 1,
                      evictions |-> <<>>, peak |-> Len0(inserted)]
        ELSE [pages |-> pgs, response |-> None, renders |-> 0,
              evictions |-> <<>>, peak |-> Len0(pgs)]

\* A cached page below the fallback height is rendered again at that height.
get_page_or_cache_upgrading(pgs, M, page_number) ==
  LET c == cache_page(pgs, page_number, M, page_number, FallbackHeight)
  IN  IF page_number \in DOMAIN c.pages
        THEN [pages |-> c.pages,
              result |-> [kind |-> "Ok", page |-> c.pages[page_number].handle],
              renders |-> c.renders, evictions |-> c.evictions, peak |-> c.peak]
        ELSE [pages |-> c.pages, result |-> [kind |-> "Err"],
              renders |-> c.renders, evictions |-> c.evictions, peak |-> c.peak]

\* PageCache::get_page_or_cache; both get_page calls set the anchor to page_number
\* before cache_page runs.
get_page_or_cache(pgs, M, page_number) ==
  IF get_page(pgs, page_number) # None
    THEN [pages |-> pgs, result |-> [kind |-> "Ok", page |-> pgs[page_number].handle],
          renders |-> 0, evictions |-> <<>>, peak |-> Len0(pgs)]
    ELSE
      LET c == cache_page(pgs, page_number, M, page_number, FallbackHeight)
      IN  IF get_page(c.pages, page_number) # None
            THEN [pages |-> c.pages,
                  result |-> [kind |-> "Ok", page |-> c.pages[page_number].handle],
                  renders |-> c.renders, evictions |-> c.evictions, peak |-> c.peak]
            ELSE [pages |-> c.pages, result |-> [kind |-> "Err"],
                  renders |-> c.renders, evictions |-> c.evictions, peak |-> c.peak]

\* cache.rs:124: Ok(self.cache_page(..)); c is what cache_page left.
process_cache_command(c, anchor) ==
  [pages |-> c.pages, last_requested_page_number |-> anchor,
   result |-> [kind |-> "Ok", response |-> c.response],
   renders |-> c.renders, evictions |-> c.evictions, peak |-> c.peak]

\* cache.rs:134-137, GetCurrentPage; g is what get_page_or_cache left.
process_get_current_page(g, page_number) ==
  [pages |-> g.pages, last_requested_page_number |-> page_number,
   result |-> IF g.result.kind = "Err"
                THEN [kind |-> "Err"]
                ELSE [kind |-> "Ok",
                      response |-> [kind |-> "SinglePageRetrieved",
                                    page |-> g.result.page]],
   renders |-> g.renders, evictions |-> g.evictions, peak |-> g.peak]

\* When the right page cannot be obtained the left one is answered alone.
process_page_right_partial(l, r, page_left_number) ==
  [pages |-> r.pages, last_requested_page_number |-> page_left_number + 1,
   result |-> IF r.result.kind = "Err"
                THEN [kind |-> "Ok",
                      response |-> [kind |-> "SinglePageRetrieved",
                                    page |-> l.result.page]]
                ELSE [kind |-> "Ok",
                      response |-> [kind |-> "TwoPagesRetrieved",
                                    page_left |-> l.result.page,
                                    page_right |-> r.result.page]],
   renders |-> l.renders + r.renders,
   evictions |-> l.evictions \o r.evictions,
   peak |-> IF l.peak >= r.peak THEN l.peak ELSE r.peak]

\* cache.rs:128-132, the right page of GetCurrentTwoPages and the response;
\* l and r are what the two get_page_or_cache calls left.
process_page_right(l, r, page_left_number) ==
  [pages |-> r.pages, last_requested_page_number |-> page_left_number + 1,
   result |-> IF r.result.kind = "Err"
                THEN [kind |-> "Err"]
                ELSE [kind |-> "Ok",
                      response |-> [kind |-> "TwoPagesRetrieved",
                                    page_left |-> l.result.page,
                                    page_right |-> r.result.page]],
   renders |-> l.renders + r.renders,
   evictions |-> l.evictions \o r.evictions,
   peak |-> IF l.peak >= r.peak THEN l.peak ELSE r.peak]

\* cache.rs:126-132, GetCurrentTwoPages; l is what the get_page_or_cache call of
\* the left page left.  `?` returns its error before the right page is asked for.
process_get_current_two_pages(l, M, page_left_number) ==
  IF l.result.kind = "Err"
    THEN [pages |-> l.pages, last_requested_page_number |-> page_left_number,
          result |-> [kind |-> "Err"],
          renders |-> l.renders, evictions |-> l.evictions, peak |-> l.peak]
    ELSE process_page_right(l, get_page_or_cache(l.pages, M, page_left_number + 1),
                            page_left_number)

\* PageCache::process_command.  result is Ok(response) or Err.
process_command(pgs, anchor, M, command) ==
  IF command.type = "Cache"
    THEN process_cache_command(
           cache_page(pgs, anchor, M, command.command.page, command.command.height),
           anchor)
    ELSE
      IF command.command.kind = "GetCurrentTwoPages"
        THEN process_get_current_two_pages(
               get_page_or_cache(pgs, M, command.command.page),
               M, command.command.page)
        ELSE process_get_current_page(
               get_page_or_cache(pgs, M, command.command.page),
               command.command.page)

(***************************************************************************)
(* SyncCacheCommandChannel (cache.rs:175-243).                             *)
(* A CachePageCommand is [page, height]; the model adds two labels the     *)
(* properties read and the code never does: tier, the push that queued it  *)
(* ("placeholder" for the push_front of line 220, "full" for the push_back *)
(* of line 224), and seq, its rank in submission order.  A                 *)
(* RetrievePagesCommand is [kind, page]; the model adds seq, fresh (no     *)
(* receive since it was sent) and superseded (the last request sent after  *)
(* it was sent while it was fresh).                                        *)
(***************************************************************************)
MaxSeq(cc) ==
  IF cc = <<>> THEN 0
  ELSE CHOOSE n \in {cc[i].seq : i \in 1..Len(cc)} : \A i \in 1..Len(cc) : cc[i].seq <= n

\* Ranks renumbered 1..n in the same order, so that they stay bounded.
Renumber(cc) ==
  [i \in 1..Len(cc) |->
     [cc[i] EXCEPT !.seq = Cardinality({j \in 1..Len(cc) : cc[j].seq <= cc[i].seq})]]

\* SyncCacheCommandSender::send_retrieve_command
send_retrieve_command(rc, command) == Append(rc, command)

\* Both jobs of a page are pushed to the back.
RECURSIVE send_cache_commands_back(_, _, _)
send_cache_commands_back(cc, pgs, height) ==
  IF pgs = <<>>
    THEN cc
    ELSE
      LET page == Head(pgs)
          n == MaxSeq(cc)
          first == Append(cc, [page |-> page, height |-> PlaceholderHeight,
                               tier |-> "placeholder", seq |-> n + 1])
          back == Append(first, [page |-> page, height |-> height,
                                 tier |-> "full", seq |-> n + 2])
      IN  send_cache_commands_back(back, Tail(pgs), height)

\* The two pushes are swapped: the full-height job goes to the front.
RECURSIVE send_cache_commands_swapped(_, _, _)
send_cache_commands_swapped(cc, pgs, height) ==
  IF pgs = <<>>
    THEN cc
    ELSE
      LET page == Head(pgs)
          n == MaxSeq(cc)
          back == Append(cc, [page |-> page, height |-> PlaceholderHeight,
                              tier |-> "placeholder", seq |-> n + 1])
          front == <<[page |-> page, height |-> height,
                      tier |-> "full", seq |-> n + 2]>> \o back
      IN  send_cache_commands_swapped(front, Tail(pgs), height)

\* SyncCacheCommandSender::send_cache_commands
RECURSIVE send_cache_commands(_, _, _)
send_cache_commands(cc, pgs, height) ==
  IF pgs = <<>>
    THEN cc
    ELSE
      LET page == Head(pgs)
          n == MaxSeq(cc)
          front == <<[page |-> page, height |-> PlaceholderHeight,
                      tier |-> "placeholder", seq |-> n + 1]>> \o cc
          back == Append(front, [page |-> page, height |-> height,
                                 tier |-> "full", seq |-> n + 2])
      IN  send_cache_commands(back, Tail(pgs), height)

\* The cache jobs are looked at before the retrieve requests.
receive_cache_first(rc, cc) ==
  IF cc # <<>>
    THEN [command |-> [type |-> "Cache", command |-> Head(cc)],
          retrieve_commands |-> rc,
          cache_commands |-> Tail(cc)]
    ELSE
      IF rc # <<>>
        THEN [command |-> [type |-> "Retrieve", command |-> rc[Len(rc)]],
              retrieve_commands |-> SubSeq(rc, 1, Len(rc) - 1),
              cache_commands |-> cc]
        ELSE [command |-> NoCommand, retrieve_commands |-> rc, cache_commands |-> cc]

\* Only the retrieve requests are looked at: cache jobs are never dequeued.
receive_retrieve_only(rc, cc) ==
  IF rc # <<>>
    THEN [command |-> [type |-> "Retrieve", command |-> rc[Len(rc)]],
          retrieve_commands |-> SubSeq(rc, 1, Len(rc) - 1),
          cache_commands |-> cc]
    ELSE [command |-> NoCommand, retrieve_commands |-> rc, cache_commands |-> cc]

\* The cache jobs are popped from the back.
receive_pop_back(rc, cc) ==
  IF rc # <<>>
    THEN [command |-> [type |-> "Retrieve", command |-> rc[Len(rc)]],
          retrieve_commands |-> SubSeq(rc, 1, Len(rc) - 1),
          cache_commands |-> cc]
    ELSE
      IF cc # <<>>
        THEN [command |-> [type |-> "Cache", command |-> cc[Len(cc)]],
              retrieve_commands |-> rc,
              cache_commands |-> SubSeq(cc, 1, Len(cc) - 1)]
        ELSE [command |-> NoCommand, retrieve_commands |-> rc, cache_commands |-> cc]

\* SyncCacheCommandReceiver::receive_most_important_command
receive_most_important_command(rc, cc) ==
  IF rc # <<>>
    THEN [command |-> [type |-> "Retrieve", command |-> rc[Len(rc)]],
          retrieve_commands |-> SubSeq(rc, 1, Len(rc) - 1),
          cache_commands |-> cc]
    ELSE
      IF cc # <<>>
        THEN [command |-> [type |-> "Cache", command |-> Head(cc)],
              retrieve_commands |-> rc,
              cache_commands |-> Tail(cc)]
        ELSE [command |-> NoCommand, retrieve_commands |-> rc, cache_commands |-> cc]

\* The receiver's own handle keeps the channel open.
is_channel_open_always(count) == count > 0

\* The loop asks for a handle besides the sender's and its own.
is_channel_open_above_two(count) == count > 2

\* SyncCacheCommandReceiver::is_channel_open
is_channel_open(count) == count > 1

RetrieveCommands ==
  [kind : {"GetCurrentTwoPages", "GetCurrentPage"}, page : QueuePages]

\* Batches of page numbers: the sequences over QueuePages of length 1 .. MaxBatch.
Batches == UNION {[1..n -> QueuePages] : n \in 1..MaxBatch}

\* The command as the code holds it, without the model's labels.
Plain(c) == [page |-> c.page, height |-> c.height]

(***************************************************************************)
(* Actions on the channel.                                                 *)
(***************************************************************************)
SendRetrieve(c) ==
  /\ Len(retrieve_commands) < MaxRetrieve
  /\ LET marked == [i \in 1..Len(retrieve_commands) |->
                      [retrieve_commands[i] EXCEPT
                         !.superseded = retrieve_commands[i].fresh]]
         command == [kind |-> c.kind, page |-> c.page,
                     seq |-> MaxSeq(retrieve_commands) + 1,
                     fresh |-> TRUE, superseded |-> FALSE]
     IN  retrieve_commands' = Renumber(send_retrieve_command(marked, command))
  /\ qlast' = "send_retrieve"
  /\ received' = NoCommand
  /\ soloBatch' = None
  /\ drained' = <<>>
  /\ UNCHANGED <<cache_commands, cacheVars, workerVars, canvasVars>>

SendCache(pgs, h) ==
  /\ Len(cache_commands) + 2 * Len(pgs) <= MaxQueue
  /\ cache_commands' = Renumber(send_cache_commands(cache_commands, pgs, h))
  /\ qlast' = "send_cache"
  /\ received' = NoCommand
  /\ soloBatch' = IF retrieve_commands = <<>> /\ cache_commands = <<>>
                    THEN [kind |-> "Batch", pages |-> pgs, height |-> h]
                    ELSE None
  /\ drained' = <<>>
  /\ UNCHANGED <<retrieve_commands, cacheVars, workerVars, canvasVars>>

Receive ==
  LET r == receive_most_important_command(retrieve_commands, cache_commands)
  IN  /\ retrieve_commands' =
            [i \in 1..Len(r.retrieve_commands) |->
               [r.retrieve_commands[i] EXCEPT !.fresh = FALSE]]
      /\ cache_commands' = r.cache_commands
      /\ received' = r.command
      /\ qlast' = "receive"
      /\ soloBatch' = soloBatch
      /\ drained' = IF soloBatch # None /\ r.command # NoCommand
                      THEN Append(drained, Plain(r.command.command))
                      ELSE drained
      /\ UNCHANGED <<cacheVars, workerVars, canvasVars>>

(***************************************************************************)
(* Actions on the PageCache.                                               *)
(***************************************************************************)
\* cache_page records the page it was given as the last requested one.
CachePageMovesAnchor(p, h) ==
  LET r == cache_page(pages, last_requested_page_number, max_num_stored_pages, p, h)
  IN  /\ pages' = r.pages
      /\ response' = r.response
      /\ renders' = r.renders
      /\ evictions' = r.evictions
      /\ peak' = r.peak
      /\ lastCall' = [op |-> "cache_page", page |-> p, height |-> h,
                      prev |-> IF lastCall.op = "cache_page" /\ lastCall.page = p
                                 THEN lastCall.height ELSE -1]
      /\ last_requested_page_number' = p
      /\ UNCHANGED <<max_num_stored_pages, queueVars, workerVars, canvasVars>>

CachePage(p, h) ==
  LET r == cache_page(pages, last_requested_page_number, max_num_stored_pages, p, h)
  IN  /\ pages' = r.pages
      /\ response' = r.response
      /\ renders' = r.renders
      /\ evictions' = r.evictions
      /\ peak' = r.peak
      /\ lastCall' = [op |-> "cache_page", page |-> p, height |-> h,
                      prev |-> IF lastCall.op = "cache_page" /\ lastCall.page = p
                                 THEN lastCall.height ELSE -1]
      /\ UNCHANGED <<max_num_stored_pages, last_requested_page_number, queueVars, workerVars, canvasVars>>

GetPage(p) ==
  /\ last_requested_page_number' = p
  /\ response' = get_page(pages, p)
  /\ renders' = 0
  /\ evictions' = <<>>
  /\ peak' = Len0(pages)
  /\ lastCall' = [op |-> "get_page", page |-> p, height |-> 0, prev |-> -1]
  /\ UNCHANGED <<pages, max_num_stored_pages, queueVars, workerVars, canvasVars>>

\* A failed lookup puts last_requested_page_number back.
GetPageOrCacheRestoresAnchor(p) ==
  LET r == get_page_or_cache(pages, max_num_stored_pages, p)
  IN  /\ last_requested_page_number' =
            IF r.result.kind = "Err" THEN last_requested_page_number ELSE p
      /\ pages' = r.pages
      /\ response' = r.result
      /\ renders' = r.renders
      /\ evictions' = r.evictions
      /\ peak' = r.peak
      /\ lastCall' = [op |-> "get_page_or_cache", page |-> p, height |-> 0, prev |-> -1]
      /\ UNCHANGED <<max_num_stored_pages, queueVars, workerVars, canvasVars>>

GetPageOrCache(p) ==
  LET r == get_page_or_cache(pages, max_num_stored_pages, p)
  IN  /\ last_requested_page_number' = p
      /\ pages' = r.pages
      /\ response' = r.result
      /\ renders' = r.renders
      /\ evictions' = r.evictions
      /\ peak' = r.peak
      /\ lastCall' = [op |-> "get_page_or_cache", page |-> p, height |-> 0, prev |-> -1]
      /\ UNCHANGED <<max_num_stored_pages, queueVars, workerVars, canvasVars>>

\* PageCache::new (cache.rs:25-32) and SyncCacheCommandChannel::open (cache.rs:189-201)
\* The state spawn_sync_cache sets up, the capacity of the cache left open.
InitState ==
  /\ pages = EmptyMap
  /\ last_requested_page_number = 0
  /\ lastCall = [op |-> "new", page |-> 0, height |-> 0, prev |-> -1]
  /\ response = None
  /\ renders = 0
  /\ evictions = <<>>
  /\ peak = 0
  /\ retrieve_commands = <<>>
  /\ cache_commands = <<>>
  /\ received = NoCommand
  /\ qlast = "open"
  /\ soloBatch = None
  /\ drained = <<>>
  /\ strong_count = 2
  /\ sender = "held"
  /\ loop = "check"
  /\ delivered = None
  /\ after_drop = 0

\* No document is shown: the canvas is not exercised.
NoCanvas ==
  /\ num_pages = 0
  /\ current_page_number = 0
  /\ overflow_checks = FALSE
  /\ canvas_status = "ok"

Init ==
  /\ InitState
  /\ NoCanvas
  /\ max_num_stored_pages \in 0..MaxStored

NextCache ==
  \/ \E p \in PageArgs, h \in Heights : CachePage(p, h)
  \/ \E p \in PageArgs : GetPage(p)
  \/ \E p \in PageArgs : GetPageOrCache(p)

\* remove_most_distant_page invoked on its own, on whatever the cache holds:
\* the function is private and cache_page calls it only above two entries.
RemoveMostDistantPage ==
  LET r == remove_most_distant_page(pages, last_requested_page_number)
  IN  /\ pages' = r.pages
      /\ response' = [kind |-> IF r.ok THEN "Ok" ELSE "Err"]
      /\ renders' = 0
      /\ evictions' = r.ev
      /\ peak' = Len0(pages)
      /\ lastCall' = [op |-> "remove_most_distant_page",
                      page |-> last_requested_page_number, height |-> 0, prev |-> -1]
      /\ UNCHANGED <<max_num_stored_pages, last_requested_page_number, queueVars, workerVars, canvasVars>>

NextEvict ==
  \/ NextCache
  \/ RemoveMostDistantPage

\* Direct calls on one PageCache, the private eviction included.
SpecEvict == Init /\ [][NextEvict]_vars

\* process_command called with a retrieve request on whatever the cache holds,
\* for every capacity of the cache.
ProcessCommand(c) ==
  \E p \in {process_command(pages, last_requested_page_number, max_num_stored_pages,
                             [type |-> "Retrieve", command |-> c])} :
    /\ pages' = p.pages
    /\ last_requested_page_number' = p.last_requested_page_number
    /\ response' = p.result
    /\ renders' = p.renders
    /\ evictions' = p.evictions
    /\ peak' = p.peak
    /\ lastCall' = [op |-> "process_command", page |-> c.page, height |-> 0,
                    prev |-> -1, kind |-> c.kind]
    /\ UNCHANGED <<max_num_stored_pages, queueVars, workerVars, canvasVars>>

NextProcess ==
  \/ NextCache
  \/ \E c \in [kind : {"GetCurrentTwoPages", "GetCurrentPage"}, page : PageArgs] :
        ProcessCommand(c)

\* Direct calls on one PageCache, process_command included.
SpecProcess == Init /\ [][NextProcess]_vars

\* Direct calls on one PageCache.
SpecCache == Init /\ [][NextCache]_vars

\* Direct calls on one PageCache by a caller that never stops calling.
SpecCacheFair == SpecCache /\ WF_vars(NextCache)

NextQueue ==
  \/ \E c \in RetrieveCommands : SendRetrieve(c)
  \/ \E pgs \in Batches, h \in SendHeights : SendCache(pgs, h)
  \/ Receive

\* spawn_sync_cache (cache.rs:249-251): the channel is opened next to a cache
\* that is not touched while only the channel is exercised.
InitQueue == Init /\ max_num_stored_pages = MaxStored

\* The sender and the receiver of one channel.
SpecQueue == InitQueue /\ [][NextQueue]_vars

(***************************************************************************)
(* spawn_sync_cache (cache.rs:245-274): the loop of the spawned future, and *)
(* the holder of the sender it returned.                                   *)
(***************************************************************************)
\* Page numbers of the commands sent to the loop: the last two pages of the
\* document, so that GetCurrentTwoPages on the last one asks for a page past
\* the end.
WorkerPages == {NumPages - 2, NumPages - 1}

\* Pages and display height of the cache jobs sent to the loop.
WorkerCachePages == {NumPages - 1}
WorkerHeights == {200}

WorkerRetrieveCommands ==
  [kind : {"GetCurrentTwoPages", "GetCurrentPage"}, page : WorkerPages]

\* The error is not handled: the future ends with it.
loop_after_unwrap(result) == IF result.kind = "Err" THEN "returned" ELSE "check"

\* Where the loop goes after a command (cache.rs:258-270): back to its test,
\* whatever process_command returned.
loop_after(result) == "check"

\* cache.rs:258-261, `.unwrap_or_else(|e| { error!(..); None })`
unwrap_or_else_none(result) ==
  IF result.kind = "Err" THEN None ELSE result.response

\* The holder of the sender sends a retrieve request.
WorkerSendRetrieve(c) ==
  /\ sender = "held"
  /\ Len(retrieve_commands) < MaxWorkerRetrieve
  /\ SendRetrieve(c)

\* The holder of the sender sends the cache jobs of one page.
WorkerSendCache(p, h) ==
  /\ sender = "held"
  /\ Len(cache_commands) + 2 <= MaxWorkerQueue
  /\ SendCache(<<p>>, h)

\* The holder drops the sender: one strong reference less (cache.rs:179-181).
DropSender ==
  /\ sender = "held"
  /\ sender' = "dropped"
  /\ strong_count' = strong_count - 1
  /\ UNCHANGED <<cacheVars, queueVars, loop, delivered, after_drop, canvasVars>>

\* cache.rs:254, the test of the while loop.  When it fails the future returns
\* and drops the receiver it owns.
LoopCheck ==
  /\ loop = "check"
  /\ IF is_channel_open(strong_count)
       THEN /\ loop' = "await"
            /\ strong_count' = strong_count
       ELSE /\ loop' = "returned"
            /\ strong_count' = strong_count - 1
  /\ UNCHANGED <<cacheVars, queueVars, sender, delivered, after_drop, canvasVars>>

\* The response of a command is handed to the callback one iteration late,
\* after the next dequeue.
LoopIterationDeferred ==
  /\ loop = "await"
  /\ UNCHANGED <<max_num_stored_pages, strong_count, sender, canvasVars>>
  /\ qlast' = "receive"
  /\ soloBatch' = None
  /\ drained' = <<>>
  /\ \E r \in {receive_most_important_command(retrieve_commands, cache_commands)} :
     \E p \in {IF r.command = NoCommand
                 THEN None
                 ELSE process_command(pages, last_requested_page_number,
                                      max_num_stored_pages, r.command)} :
         /\ retrieve_commands' =
               [i \in 1..Len(r.retrieve_commands) |->
                  [r.retrieve_commands[i] EXCEPT !.fresh = FALSE]]
         /\ cache_commands' = r.cache_commands
         /\ received' = r.command
         /\ IF r.command = NoCommand
              THEN /\ lastCall' = [op |-> "none", page |-> 0, height |-> 0, prev |-> -1]
                   /\ response' = None
                   /\ renders' = 0
                   /\ evictions' = <<>>
                   /\ peak' = Len0(pages)
                   /\ delivered' = (IF response.kind = "Ok" THEN response.response ELSE None)
                   /\ loop' = "check"
                   /\ UNCHANGED <<pages, last_requested_page_number, after_drop>>
              ELSE /\ lastCall' = [op |-> "process_command",
                                   page |-> r.command.command.page,
                                   height |-> IF r.command.type = "Cache"
                                                THEN r.command.command.height ELSE 0,
                                   prev |-> -1]
                   /\ pages' = p.pages
                   /\ last_requested_page_number' = p.last_requested_page_number
                   /\ response' = p.result
                   /\ renders' = p.renders
                   /\ evictions' = p.evictions
                   /\ peak' = p.peak
                   /\ delivered' = (IF response.kind = "Ok" THEN response.response ELSE None)
                   /\ after_drop' = IF sender = "dropped"
                                      THEN after_drop + 1 ELSE after_drop
                   /\ loop' = loop_after(p.result)

\* cache.rs:256-270, the body of the loop once the timeout has elapsed.
LoopIteration ==
  /\ loop = "await"
  /\ UNCHANGED <<max_num_stored_pages, strong_count, sender, canvasVars>>
  /\ qlast' = "receive"
  /\ soloBatch' = None
  /\ drained' = <<>>
  /\ \E r \in {receive_most_important_command(retrieve_commands, cache_commands)} :
     \E p \in {IF r.command = NoCommand
                 THEN None
                 ELSE process_command(pages, last_requested_page_number,
                                      max_num_stored_pages, r.command)} :
         /\ retrieve_commands' =
               [i \in 1..Len(r.retrieve_commands) |->
                  [r.retrieve_commands[i] EXCEPT !.fresh = FALSE]]
         /\ cache_commands' = r.cache_commands
         /\ received' = r.command
         /\ IF r.command = NoCommand
              THEN /\ lastCall' = [op |-> "none", page |-> 0, height |-> 0, prev |-> -1]
                   /\ response' = None
                   /\ renders' = 0
                   /\ evictions' = <<>>
                   /\ peak' = Len0(pages)
                   /\ delivered' = None
                   /\ loop' = "check"
                   /\ UNCHANGED <<pages, last_requested_page_number, after_drop>>
              ELSE /\ lastCall' = [op |-> "process_command",
                                   page |-> r.command.command.page,
                                   height |-> IF r.command.type = "Cache"
                                                THEN r.command.command.height ELSE 0,
                                   prev |-> -1]
                   /\ pages' = p.pages
                   /\ last_requested_page_number' = p.last_requested_page_number
                   /\ response' = p.result
                   /\ renders' = p.renders
                   /\ evictions' = p.evictions
                   /\ peak' = p.peak
                   /\ delivered' = unwrap_or_else_none(p.result)
                   /\ after_drop' = IF sender = "dropped"
                                      THEN after_drop + 1 ELSE after_drop
                   /\ loop' = loop_after(p.result)

InitWorker ==
  /\ InitState
  /\ NoCanvas
  /\ max_num_stored_pages = SpawnedMaxNumStoredPages

NextWorker ==
  \/ \E c \in WorkerRetrieveCommands : WorkerSendRetrieve(c)
  \/ \E p \in WorkerCachePages, h \in WorkerHeights : WorkerSendCache(p, h)
  \/ DropSender
  \/ LoopCheck
  \/ LoopIteration

\* The loop of spawn_sync_cache next to the holder of its sender.
SpecWorker == InitWorker /\ [][NextWorker]_vars

\* The same, the glib main loop running the future whenever it can go on.
SpecWorkerFair ==
  SpecWorker /\ WF_vars(LoopCheck) /\ WF_vars(LoopIteration)

(***************************************************************************)
(* DocumentCanvas (ui.rs:78-118): the page number of the left page shown.  *)
(***************************************************************************)
\* a - b on usize: the difference, and whether it went below zero.  What the
\* program then does depends on the build: with overflow checks it panics,
\* without them the value wraps around.
usize_sub(a, b) ==
  IF a >= b
    THEN [value |-> a - b, overflow |-> FALSE]
    ELSE [value |-> a - b + UsizeModulus, overflow |-> TRUE]

\* DocumentCanvas::increase_page_number
IncreasePageNumber ==
  /\ canvas_status # "panicked"
  /\ current_page_number < MaxDocumentPages
  /\ \E bound \in {usize_sub(num_pages, 2)} :
       IF bound.overflow /\ overflow_checks
         THEN /\ canvas_status' = "panicked"
              /\ UNCHANGED current_page_number
         ELSE /\ canvas_status' = IF bound.overflow THEN "wrapped" ELSE canvas_status
              /\ current_page_number' =
                   IF current_page_number >= bound.value
                     THEN current_page_number
                     ELSE current_page_number + 1
  /\ UNCHANGED <<num_pages, overflow_checks, cacheVars, queueVars, workerVars>>

\* DocumentCanvas::decrease_page_number
DecreasePageNumber ==
  /\ canvas_status # "panicked"
  /\ current_page_number' =
       IF current_page_number <= 0
         THEN current_page_number
         ELSE current_page_number - 1
  /\ UNCHANGED <<num_pages, overflow_checks, canvas_status,
                 cacheVars, queueVars, workerVars>>

\* DocumentCanvas::new on a document of at least one page, in either build.
InitCanvas ==
  /\ InitState
  /\ max_num_stored_pages = MaxStored
  /\ num_pages \in 1..MaxDocumentPages
  /\ current_page_number = 0
  /\ overflow_checks \in BOOLEAN
  /\ canvas_status = "ok"

NextCanvas ==
  \/ IncreasePageNumber
  \/ DecreasePageNumber

\* The clicks that turn the pages of one DocumentCanvas.
SpecCanvas == InitCanvas /\ [][NextCanvas]_vars

(***************************************************************************)
(* Properties.                                                             *)
(***************************************************************************)
MaxOf(a, b) == IF a >= b THEN a ELSE b

SizeLimit == MaxOf(2, max_num_stored_pages)

\* C1: after every call on the cache the number of cached pages is at most
\* max(2, max_num_stored_pages); during a call it exceeds that limit by at
\* most one entry, and only in a call that inserted a page and then ran the
\* eviction.
C1_SizeBound ==
  /\ Len0(pages) <= SizeLimit
  /\ peak <= SizeLimit + 1
  /\ peak > SizeLimit => renders = 1 /\ Len(evictions) = 1

\* A call that pushed the size one above the limit and evicted back to it.
C1_Witness ==
  /\ peak = SizeLimit + 1
  /\ Len0(pages) = SizeLimit
  /\ Len(evictions) = 1

\* C2: a retrieve request that was superseded (a later request was sent while
\* no receive had happened since it was sent, and no request was sent after a
\* receive) is never returned by receive_most_important_command.
C2_OnlyMostRecentServiced ==
  (qlast = "receive" /\ received.type = "Retrieve") => ~received.command.superseded

\* C3: a receive returns a Cache command only if retrieve_commands was empty;
\* when retrieve_commands was not empty it returns the request pushed last and
\* leaves cache_commands unchanged; it returns nothing only when both
\* collections were empty.
C3_RetrievePreemptsCache ==
  [][qlast' = "receive" =>
       /\ received'.type = "Cache" => retrieve_commands = <<>>
       /\ retrieve_commands # <<>> =>
            /\ received'.type = "Retrieve"
            /\ received'.command.seq = MaxSeq(retrieve_commands)
            /\ cache_commands' = cache_commands
            /\ Len(retrieve_commands') = Len(retrieve_commands) - 1
       /\ received'.type = "None" => retrieve_commands = <<>> /\ cache_commands = <<>>
       /\ (retrieve_commands = <<>> /\ cache_commands # <<>>) => received'.type = "Cache"
    ]_vars

\* A retrieve request returned while cache jobs were pending.
C3_Witness ==
  /\ qlast = "receive"
  /\ received.type = "Retrieve"
  /\ cache_commands # <<>>

\* What draining one batch sent into an empty channel has to yield.
ExpectedDrain(pgs, height) ==
  LET n == Len(pgs)
  IN  [i \in 1..n |-> [page |-> pgs[n + 1 - i], height |-> PlaceholderHeight]]
        \o [i \in 1..n |-> [page |-> pgs[i], height |-> height]]

IsPrefix(a, b) == Len(a) <= Len(b) /\ a = SubSeq(b, 1, Len(a))

\* C4: after one batch [p1..pn] at height h was sent into an empty channel,
\* the receives that follow (nothing else is sent) yield placeholder(pn), ..,
\* placeholder(p1), full(p1, h), .., full(pn, h), a placeholder being a job
\* of height 10.
C4_BatchDrainOrder ==
  soloBatch.kind = "Batch" =>
    LET want == ExpectedDrain(soloBatch.pages, soloBatch.height)
    IN  /\ IsPrefix(drained, want)
        /\ Len(drained) + Len(cache_commands) = Len(want)
        /\ cache_commands = <<>> => drained = want

\* A batch of two different pages, drained to the end.
C4_Witness ==
  /\ soloBatch.kind = "Batch"
  /\ Len(soloBatch.pages) = 2
  /\ soloBatch.pages[1] # soloBatch.pages[2]
  /\ soloBatch.height # PlaceholderHeight
  /\ Len(drained) = 4
  /\ cache_commands = <<>>

\* The extreme an eviction kept and the one it dropped.
EvictLo(e) == MinKey(e.before)
EvictHi(e) == MaxKey(e.before)
EvictKept(e) == IF EvictLo(e) \in DOMAIN e.after THEN EvictLo(e) ELSE EvictHi(e)
EvictDropped(e) == IF EvictLo(e) \in DOMAIN e.after THEN EvictHi(e) ELSE EvictLo(e)

\* C5: every eviction drops exactly one of the lowest and the highest cached
\* page number and keeps the other, and the one kept is at most as far from
\* the anchor as the one dropped; on a tie the lowest is kept.
C5_KeptIsCloser ==
  \A i \in 1..Len(evictions) :
    LET e == evictions[i]
    IN  /\ EvictKept(e) \in DOMAIN e.after
        /\ EvictDropped(e) \notin DOMAIN e.after
        /\ AbsDiff(e.anchor, EvictKept(e)) <= AbsDiff(e.anchor, EvictDropped(e))
        /\ AbsDiff(e.anchor, EvictKept(e)) = AbsDiff(e.anchor, EvictDropped(e))
             => EvictKept(e) = EvictLo(e)

\* An eviction on a tie, and so one that kept the lowest key.
C5_Witness ==
  /\ Len(evictions) = 1
  /\ AbsDiff(evictions[1].anchor, EvictLo(evictions[1]))
       = AbsDiff(evictions[1].anchor, EvictHi(evictions[1]))
  /\ EvictLo(evictions[1]) \in DOMAIN pages

\* The step is a cache_page call on the page of the cache_page call before it.
SecondCachePage ==
  /\ lastCall.op = "cache_page"
  /\ lastCall'.op = "cache_page"
  /\ lastCall'.page = lastCall.page

NoOpCall == renders' = 0 /\ pages' = pages /\ response' = None

\* C6 as claimed: in every state, cache_page(p, h) followed immediately by
\* cache_page(p, h2) with h2 <= h is a no-op on its second call.
C6_RepeatIsNoOp ==
  [][(SecondCachePage /\ lastCall'.height <= lastCall.height) => NoOpCall]_vars

\* C6 as amended: the second call is a no-op whenever p is still cached when
\* the first call returns, or the document does not provide p.
C6_RepeatIsNoOpIfKept ==
  [][(/\ SecondCachePage
      /\ lastCall'.height <= lastCall.height
      /\ (lastCall.page \in DOMAIN pages \/ ~DocumentPage(lastCall.page)))
       => NoOpCall]_vars

\* A second call at the same or a lower height on a page the first call left
\* in the cache.
C6_Witness ==
  /\ lastCall.op = "cache_page"
  /\ lastCall.prev >= lastCall.height
  /\ lastCall.page \in DOMAIN pages
  /\ renders = 0

\* C7 as claimed: in every state, cache_page(p, h1) followed immediately by
\* cache_page(p, h2) with h2 > h1 returns PageResolutionUpgraded with page
\* number p and a handle other than the one the first call left for p.
C7_SecondCallUpgrades ==
  [][(SecondCachePage /\ lastCall'.height > lastCall.height) =>
       /\ response'.kind = "PageResolutionUpgraded"
       /\ response'.page_number = lastCall'.page
       /\ lastCall.page \in DOMAIN pages => response'.page # pages[lastCall.page].handle
    ]_vars

\* C7 as amended: the second call returns the notice, with page number p and
\* a newly rendered handle other than the one cached for p, exactly when p is
\* cached below h2 when the first call returns; otherwise it returns nothing.
C7_SecondCallUpgradesIfBelow ==
  [][(SecondCachePage /\ lastCall'.height > lastCall.height) =>
       IF lastCall.page \in DOMAIN pages
            /\ pages[lastCall.page].height < lastCall'.height
         THEN /\ response'.kind = "PageResolutionUpgraded"
              /\ response'.page_number = lastCall'.page
              /\ response'.page # pages[lastCall.page].handle
              /\ renders' = 1
         ELSE response' = None
    ]_vars

\* A second call at a greater height that returned the notice.
C7_Witness ==
  /\ lastCall.op = "cache_page"
  /\ lastCall.prev >= 0
  /\ lastCall.prev < lastCall.height
  /\ response.kind = "PageResolutionUpgraded"

\* C8: get_page_or_cache(p) for a page the document does not provide returns
\* an error and leaves the cached pages as they were.
C8_UnavailablePageFails ==
  [][(lastCall'.op = "get_page_or_cache" /\ ~DocumentPage(lastCall'.page)) =>
       (response'.kind = "Err" /\ pages' = pages)]_vars

\* The page past the end was asked for on an empty cache, which stayed empty.
C8_Witness ==
  /\ lastCall.op = "get_page_or_cache"
  /\ lastCall.page = NumPages
  /\ response.kind = "Err"
  /\ pages = EmptyMap

\* C9: a receive never returns a full-height cache job while a placeholder
\* job is pending in cache_commands.
C9_PlaceholdersFirst ==
  (qlast = "receive" /\ received.type = "Cache" /\ received.command.tier = "full") =>
    \A i \in 1..Len(cache_commands) : cache_commands[i].tier # "placeholder"

\* A placeholder returned ahead of a full-height job that was submitted before
\* it, every placeholder submitted before it having been returned already: a
\* placeholder of a later batch overtaking a full-height job of an earlier one.
C9_Witness ==
  /\ qlast = "receive"
  /\ received.type = "Cache"
  /\ received.command.tier = "placeholder"
  /\ \E i \in 1..Len(cache_commands) :
       /\ cache_commands[i].tier = "full"
       /\ cache_commands[i].seq < received.command.seq
  /\ \A i \in 1..Len(cache_commands) : cache_commands[i].tier = "full"

\* C10 as claimed: of two pending cache jobs of the same tier, the one
\* submitted earlier is returned first.
C10_SubmissionOrderInTier ==
  (qlast = "receive" /\ received.type = "Cache") =>
    \A i \in 1..Len(cache_commands) :
      cache_commands[i].tier = received.command.tier
        => cache_commands[i].seq > received.command.seq

\* C10 as amended: full-height jobs are returned in submission order,
\* placeholder jobs in the reverse of it (the one submitted last comes first).
C10_FullInOrderPlaceholdersReversed ==
  (qlast = "receive" /\ received.type = "Cache") =>
    \A i \in 1..Len(cache_commands) :
      cache_commands[i].tier = received.command.tier
        => IF received.command.tier = "full"
             THEN cache_commands[i].seq > received.command.seq
             ELSE cache_commands[i].seq < received.command.seq

\* A placeholder returned while a placeholder submitted before it is pending.
C10_Witness ==
  /\ qlast = "receive"
  /\ received.type = "Cache"
  /\ received.command.tier = "placeholder"
  /\ \E i \in 1..Len(cache_commands) :
       /\ cache_commands[i].tier = "placeholder"
       /\ cache_commands[i].seq < received.command.seq

\* C11: remove_most_distant_page is entered only with more than 2 entries and
\* more than max_num_stored_pages entries, and it never returns its error.
C11_EvictionOnlyAboveTwo ==
  \A i \in 1..Len(evictions) :
    /\ Len0(evictions[i].before) > 2
    /\ Len0(evictions[i].before) > max_num_stored_pages
    /\ evictions[i].ok

\* An eviction entered with three entries, the fewest it is ever entered with.
C11_Witness ==
  /\ Len(evictions) = 1
  /\ Len0(evictions[1].before) = 3
  /\ evictions[1].ok
  /\ Len0(pages) = 2

\* C12: cache_page and get_page return no error; cache_page on a page the
\* document does not provide returns no response, renders nothing, inserts
\* nothing, evicts nothing and leaves last_requested_page_number as it was;
\* get_page on a page that is not cached returns nothing and leaves the cached
\* pages as they were.
C12_RenderAndGetNeverFail ==
  [][/\ lastCall'.op \in {"cache_page", "get_page"} => response'.kind # "Err"
     /\ (lastCall'.op = "cache_page" /\ ~DocumentPage(lastCall'.page)) =>
          /\ response' = None
          /\ renders' = 0
          /\ pages' = pages
          /\ evictions' = <<>>
          /\ last_requested_page_number' = last_requested_page_number
     /\ (lastCall'.op = "get_page" /\ lastCall'.page \notin DOMAIN pages) =>
          /\ response' = None
          /\ pages' = pages
    ]_vars

\* cache_page on the page past the end, called on a cache that holds pages
\* and whose anchor is another page.
C12_Witness ==
  /\ lastCall.op = "cache_page"
  /\ lastCall.page = NumPages
  /\ response = None
  /\ Len0(pages) = 2
  /\ last_requested_page_number # NumPages

\* C15: a cache_page call leaves last_requested_page_number as it was,
\* whatever the call does; get_page(p) and get_page_or_cache(p) set it to p.
C15_AnchorMovedOnlyByLookups ==
  [][/\ lastCall'.op = "cache_page" =>
          last_requested_page_number' = last_requested_page_number
     /\ lastCall'.op \in {"get_page", "get_page_or_cache"} =>
          last_requested_page_number' = lastCall'.page
    ]_vars

\* A cache_page call that rendered a page other than the anchor and evicted.
C15_Witness ==
  /\ lastCall.op = "cache_page"
  /\ lastCall.page # last_requested_page_number
  /\ renders = 1
  /\ Len(evictions) = 1

\* The eviction dropped a page strictly closer to its anchor than a page it
\* retained.
DropsCloserThanRetained(e) ==
  \E k \in DOMAIN e.after :
    AbsDiff(e.anchor, EvictDropped(e)) < AbsDiff(e.anchor, k)

ApproximatingEviction ==
  \E i \in 1..Len(evictions) : evictions[i].ok /\ DropsCloserThanRetained(evictions[i])

\* C16 as claimed: the two-extremes eviction is only an approximation of
\* farthest-eviction, that is, calls on the cache lead to an eviction that
\* drops a page strictly closer to last_requested_page_number than a page it
\* retains.
C16_SomeEvictionDropsCloser == <>ApproximatingEviction

\* C16 as amended: every eviction drops a page at maximal distance from
\* last_requested_page_number among all the pages cached when it runs; no page
\* it retains is strictly farther than the page it drops.
C16_DroppedIsFarthest ==
  \A i \in 1..Len(evictions) :
    evictions[i].ok =>
      \A k \in DOMAIN evictions[i].before :
        AbsDiff(evictions[i].anchor, k)
          <= AbsDiff(evictions[i].anchor, EvictDropped(evictions[i]))

\* An eviction that retained a page strictly between the two extremes, with the
\* anchor outside the cached range.
C16_Witness ==
  /\ Len(evictions) = 1
  /\ evictions[1].ok
  /\ Len0(evictions[1].after) = 2
  /\ \E k \in DOMAIN evictions[1].after :
       EvictLo(evictions[1]) < k /\ k < EvictHi(evictions[1])
  /\ evictions[1].anchor > EvictHi(evictions[1])

\* C17: cache_page(p, h) called while p is cached with a height of at least h
\* is a no-op: nothing is rendered, the cached pages with their handles and
\* last_requested_page_number stay as they were, no eviction runs and no
\* response is returned.
C17_CachedAtHeightIsNoOp ==
  [][(/\ lastCall'.op = "cache_page"
      /\ lastCall'.page \in DOMAIN pages
      /\ pages[lastCall'.page].height >= lastCall'.height) =>
       /\ renders' = 0
       /\ pages' = pages
       /\ last_requested_page_number' = last_requested_page_number
       /\ evictions' = <<>>
       /\ peak' = Len0(pages)
       /\ response' = None
    ]_vars

\* A call at a height below the cached one, not preceded by a cache_page call
\* on the same page.
C17_Witness ==
  /\ lastCall.op = "cache_page"
  /\ lastCall.prev = -1
  /\ lastCall.page \in DOMAIN pages
  /\ pages[lastCall.page].height > lastCall.height
  /\ renders = 0

\* C18: cache_page(p, h) returns PageResolutionUpgraded exactly when the
\* document has p and p was cached with a height below h at call time; the
\* notice carries p and the handle just inserted, which differs from the one
\* replaced; a first-time render of an uncached page returns no response.
C18_UpgradeNoticeExactlyOnUpgrade ==
  [][lastCall'.op = "cache_page" =>
       LET p == lastCall'.page
           h == lastCall'.height
       IN  /\ (response'.kind = "PageResolutionUpgraded") <=>
                (/\ DocumentPage(p)
                 /\ p \in DOMAIN pages
                 /\ pages[p].height < h)
           /\ response'.kind = "PageResolutionUpgraded" =>
                /\ response'.page_number = p
                /\ p \in DOMAIN pages'
                /\ response'.page = pages'[p].handle
                /\ response'.page # pages[p].handle
                /\ pages'[p].height = h
                /\ renders' = 1
           /\ p \notin DOMAIN pages => response' = None
    ]_vars

\* An upgrade notice whose handle is the one now cached for the page.
C18_Witness ==
  /\ lastCall.op = "cache_page"
  /\ response.kind = "PageResolutionUpgraded"
  /\ response.page_number = lastCall.page
  /\ response.page = pages[lastCall.page].handle
  /\ pages[lastCall.page].height = FallbackHeight

\* C19: one eviction on a cache with more than 2 entries removes exactly one
\* entry, the lowest-keyed or the highest-keyed one; every other entry, the
\* re-inserted extreme included, has the same key and bitmap after the eviction
\* as before it, and the cache is left as the eviction left it.
C19_EvictionFrame ==
  \A i \in 1..Len(evictions) :
    LET e == evictions[i]
    IN  Len0(e.before) > 2 =>
          /\ e.ok
          /\ Len0(e.after) = Len0(e.before) - 1
          /\ \E d \in {EvictLo(e), EvictHi(e)} :
               DOMAIN e.after = DOMAIN e.before \ {d}
          /\ \A k \in DOMAIN e.after : e.after[k] = e.before[k]
          /\ i = Len(evictions) => pages = e.after

\* An eviction on three entries that dropped the lowest key and re-inserted
\* the highest one.
C19_Witness ==
  /\ Len(evictions) = 1
  /\ Len0(evictions[1].before) = 3
  /\ EvictLo(evictions[1]) \notin DOMAIN pages
  /\ EvictHi(evictions[1]) \in DOMAIN pages
  /\ pages[EvictHi(evictions[1])] = evictions[1].before[EvictHi(evictions[1])]

\* C20: remove_most_distant_page invoked on a cache with fewer than 2 entries
\* returns an error and leaves the cached pages as they were.
C20_FailedEvictionIsNoOp ==
  [][(lastCall'.op = "remove_most_distant_page" /\ Len0(pages) < 2) =>
       (response'.kind = "Err" /\ pages' = pages)]_vars

\* The step is one run of the loop body.
IterationStep == loop = "await" /\ loop' # "await"

\* C13: a failing command is not fatal to the loop: when process_command
\* returns an error (only a retrieve command can fail) the receiver callback
\* is not invoked and the loop goes back to its test; and every run of the loop
\* body, the ones after a failure included, dequeues one command when one is
\* queued, processes it and hands its response, if any, to the callback.
C13_FailureIsNotFatal ==
  [][/\ (IterationStep /\ response'.kind = "Err") =>
          /\ received'.type = "Retrieve"
          /\ delivered' = None
          /\ loop' = "check"
     /\ (IterationStep /\ Len(retrieve_commands) + Len(cache_commands) > 0) =>
          /\ received' # NoCommand
          /\ lastCall'.op = "process_command"
          /\ Len(retrieve_commands') + Len(cache_commands')
               = Len(retrieve_commands) + Len(cache_commands) - 1
          /\ (response'.kind = "Ok" /\ response'.response # None) =>
               delivered' = response'.response
    ]_vars

\* The last command processed failed, a retrieve request was sent after it,
\* and the loop is in its body, about to dequeue that request.
C13_Witness ==
  /\ lastCall.op = "process_command"
  /\ response.kind = "Err"
  /\ delivered = None
  /\ qlast = "send_retrieve"
  /\ retrieve_commands # <<>>
  /\ sender = "held"
  /\ loop = "await"

\* The sender returned by spawn_sync_cache has not been dropped.
SenderExists == sender = "held"
Running == loop # "returned"
Terminated == loop = "returned"

\* C14: the loop is Running while the sender exists, the queue empty or not;
\* once the sender is dropped the loop eventually is Terminated, and it never
\* leaves Terminated.
C14_RunsUntilSenderDropped ==
  /\ [](SenderExists => Running)
  /\ (~SenderExists) ~> Terminated
  /\ [][Terminated => Terminated']_vars

\* The loop has returned after the sender was dropped with commands still
\* queued.
C14_Witness ==
  /\ Terminated
  /\ ~SenderExists
  /\ strong_count = 0
  /\ cache_commands # <<>>

\* C22: get_page_or_cache(p) on a cached page returns the cached handle
\* without rendering, whatever the cached height, and leaves the cached pages
\* alone; on an uncached page the document provides it renders once, at the
\* fallback height, inserts the bitmap and returns its handle.
C22_LookupHitsOrRendersAtFallback ==
  [][lastCall'.op = "get_page_or_cache" =>
       LET p == lastCall'.page
       IN  /\ p \in DOMAIN pages =>
                /\ response' = [kind |-> "Ok", page |-> pages[p].handle]
                /\ renders' = 0
                /\ pages' = pages
           /\ (p \notin DOMAIN pages /\ DocumentPage(p)) =>
                /\ renders' = 1
                /\ p \in DOMAIN pages'
                /\ pages'[p].height = FallbackHeight
                /\ response' = [kind |-> "Ok", page |-> pages'[p].handle]
                /\ \A k \in DOMAIN pages' \ {p} : k \in DOMAIN pages /\ pages'[k] = pages[k]
    ]_vars

\* A placeholder of height 10 returned as it is.
C22_Witness ==
  /\ lastCall.op = "get_page_or_cache"
  /\ renders = 0
  /\ lastCall.page \in DOMAIN pages
  /\ pages[lastCall.page].height = PlaceholderHeight
  /\ response = [kind |-> "Ok", page |-> pages[lastCall.page].handle]

\* C25: while a page number stays in the cache the height of its bitmap does
\* not decrease; an entry is replaced only by the one render of a cache_page
\* or get_page_or_cache call on that page, at a strictly greater height.
C25_HeightNeverDecreases ==
  [][\A k \in DOMAIN pages \cap DOMAIN pages' :
       /\ pages'[k].height >= pages[k].height
       /\ pages'[k] # pages[k] =>
            /\ pages'[k].height > pages[k].height
            /\ pages'[k].handle # pages[k].handle
            /\ lastCall'.op = "cache_page"
            /\ lastCall'.page = k
            /\ lastCall'.height = pages'[k].height
            /\ renders' = 1
    ]_vars

\* A page cached at the fallback height whose bitmap replaced an earlier one.
C25_Witness ==
  /\ lastCall.op = "cache_page"
  /\ lastCall.height = FallbackHeight
  /\ lastCall.page \in DOMAIN pages
  /\ pages[lastCall.page].height = FallbackHeight
  /\ pages[lastCall.page].handle.version = 1
  /\ renders = 1

\* C28: get_page_or_cache(p) fails exactly when p is not cached and the
\* document does not provide it; the failed call renders nothing and leaves the
\* cached pages unchanged, but sets last_requested_page_number to p, and an
\* eviction of a later cache_page call measures from the page number it finds
\* there.
C28_FailedLookupMovesAnchor ==
  [][/\ lastCall'.op = "get_page_or_cache" =>
          /\ (response'.kind = "Err") <=>
               (lastCall'.page \notin DOMAIN pages /\ ~DocumentPage(lastCall'.page))
          /\ response'.kind = "Err" =>
               /\ pages' = pages
               /\ renders' = 0
               /\ evictions' = <<>>
               /\ last_requested_page_number' = lastCall'.page
     /\ lastCall'.op = "cache_page" =>
          \A i \in 1..Len(evictions') :
            evictions'[i].anchor = last_requested_page_number
    ]_vars

\* A failed lookup of the page past the end, on a cache that holds pages.
C28_Witness ==
  /\ lastCall.op = "get_page_or_cache"
  /\ response.kind = "Err"
  /\ ~DocumentPage(lastCall.page)
  /\ last_requested_page_number = lastCall.page
  /\ Len0(pages) >= 2

\* C26: get_page_or_cache(p) succeeds for every page the document provides,
\* whatever the capacity and the cache content: no eviction of the call drops
\* p, and p is in the cache with the handle returned when the call returns;
\* likewise GetCurrentTwoPages{left} succeeds when the document provides both
\* pages, and after it both left and left + 1 are in the cache with the
\* handles of the response.
C26_ReturnedPagesStayCached ==
  [][/\ lastCall'.op = "get_page_or_cache" =>
          /\ DocumentPage(lastCall'.page) => response'.kind = "Ok"
          /\ \A i \in 1..Len(evictions') : lastCall'.page \in DOMAIN evictions'[i].after
          /\ response'.kind = "Ok" =>
               /\ lastCall'.page \in DOMAIN pages'
               /\ pages'[lastCall'.page].handle = response'.page
     /\ (lastCall'.op = "process_command" /\ response'.kind = "Ok"
           /\ response'.response.kind = "TwoPagesRetrieved") =>
          /\ lastCall'.page \in DOMAIN pages'
          /\ lastCall'.page + 1 \in DOMAIN pages'
          /\ pages'[lastCall'.page].handle = response'.response.page_left
          /\ pages'[lastCall'.page + 1].handle = response'.response.page_right
     /\ (lastCall'.op = "process_command" /\ lastCall'.kind = "GetCurrentTwoPages"
           /\ DocumentPage(lastCall'.page) /\ DocumentPage(lastCall'.page + 1)) =>
          /\ response'.kind = "Ok"
          /\ response'.response.kind = "TwoPagesRetrieved"
          /\ \A i \in 1..Len(evictions') :
               lastCall'.page \in DOMAIN evictions'[i].after
    ]_vars

\* A successful GetCurrentTwoPages whose second insert ran an eviction.
C26_Witness ==
  /\ lastCall.op = "process_command"
  /\ response.kind = "Ok"
  /\ response.response.kind = "TwoPagesRetrieved"
  /\ Len(evictions) >= 1
  /\ evictions[Len(evictions)].ok
  /\ lastCall.page + 1 \in DOMAIN pages

\* The step is a run of the loop body that dequeued GetCurrentTwoPages.
TwoPagesStep ==
  /\ IterationStep
  /\ received'.type = "Retrieve"
  /\ received'.command.kind = "GetCurrentTwoPages"

\* C21: processing GetCurrentTwoPages{left} obtains left first and left + 1
\* second (the last page looked up is left + 1), and a TwoPagesRetrieved
\* response with the two cached handles is emitted exactly when the document
\* provides both pages; when left + 1 is unavailable nothing is emitted, and
\* left, if the document provides it, is in the cache all the same, rendered
\* by the command if it was not cached.
C21_TwoPagesAllOrNothing ==
  [][TwoPagesStep =>
       LET left == received'.command.page
       IN  /\ (delivered' # None) <=> (DocumentPage(left) /\ DocumentPage(left + 1))
           /\ delivered' # None =>
                /\ delivered' = [kind |-> "TwoPagesRetrieved",
                                 page_left |-> pages'[left].handle,
                                 page_right |-> pages'[left + 1].handle]
                /\ last_requested_page_number' = left + 1
                /\ renders' = Cardinality({left, left + 1} \ DOMAIN pages)
           /\ (DocumentPage(left) /\ ~DocumentPage(left + 1)) =>
                /\ response'.kind = "Err"
                /\ delivered' = None
                /\ left \in DOMAIN pages'
                /\ renders' = (IF left \in DOMAIN pages THEN 0 ELSE 1)
                /\ last_requested_page_number' = left + 1
    ]_vars

\* GetCurrentTwoPages on the last page: nothing was emitted, the left page was
\* rendered and is cached.
C21_Witness ==
  /\ lastCall.op = "process_command"
  /\ received.type = "Retrieve"
  /\ received.command.kind = "GetCurrentTwoPages"
  /\ received.command.page = NumPages - 1
  /\ response.kind = "Err"
  /\ delivered = None
  /\ renders = 1
  /\ (NumPages - 1) \in DOMAIN pages

\* C27: after the sender is dropped the loop processes at most one further
\* command before it terminates, and once it has terminated the commands still
\* queued are never processed: the queues, the cache and the record of the
\* callback stay as they are.
C27_AtMostOneAfterDrop ==
  [][/\ after_drop' <= 1
     /\ (after_drop = 1 /\ loop = "check") => loop' \in {"check", "returned"}
     /\ Terminated =>
          /\ ~SenderExists
          /\ UNCHANGED <<pages, last_requested_page_number, retrieve_commands,
                         cache_commands, received, lastCall, response, delivered,
                         after_drop>>
    ]_vars

\* The loop has terminated after processing one retrieve request since the
\* drop, with cache jobs left in the queue.
C27_Witness ==
  /\ Terminated
  /\ after_drop = 1
  /\ received.type = "Retrieve"
  /\ Len(cache_commands) >= 2

\* C24: the callback is invoked inside the iteration that dequeued the
\* command, before the next dequeue: a run of the loop body that finds the
\* queues empty invokes no callback, one that dequeued a command invokes it at
\* most once, with the response of that very command if it has one, and no
\* other step invokes it.
C24_CallbackWithinIteration ==
  [][/\ (IterationStep /\ received' = NoCommand) => delivered' = None
     /\ (IterationStep /\ received' # NoCommand) =>
          /\ delivered' = (IF response'.kind = "Ok" THEN response'.response ELSE None)
          /\ (delivered' # None /\ received'.type = "Cache") =>
               /\ delivered'.kind = "PageResolutionUpgraded"
               /\ delivered'.page_number = received'.command.page
               /\ delivered'.page = pages'[received'.command.page].handle
          /\ (delivered' # None /\ received'.type = "Retrieve"
                /\ received'.command.kind = "GetCurrentPage") =>
               delivered' = [kind |-> "SinglePageRetrieved",
                             page |-> pages'[received'.command.page].handle]
          /\ (delivered' # None /\ received'.type = "Retrieve"
                /\ received'.command.kind = "GetCurrentTwoPages") =>
               delivered'.kind = "TwoPagesRetrieved"
     /\ ~IterationStep => delivered' = delivered
    ]_vars

\* The response of the command just dequeued has been handed to the callback
\* while the next commands are still queued.
C24_Witness ==
  /\ loop = "check"
  /\ received.type = "Retrieve"
  /\ received.command.kind = "GetCurrentPage"
  /\ delivered.kind = "SinglePageRetrieved"
  /\ Len(cache_commands) >= 2

QueuesEmpty == retrieve_commands = <<>> /\ cache_commands = <<>>

\* The step submits a command.
SendStep ==
  \/ Len(retrieve_commands') > Len(retrieve_commands)
  \/ Len(cache_commands') > Len(cache_commands)

\* C23: if the sender is never dropped and from some point on no command is
\* submitted, both queues eventually are empty for good; and no step removes
\* more than one command, a run of the loop body removing exactly one when one
\* is queued.
C23_EventuallyDrained ==
  /\ ([]SenderExists /\ <>[][~SendStep]_vars) => <>[]QueuesEmpty
  /\ [][/\ Len(retrieve_commands') + Len(cache_commands')
             >= Len(retrieve_commands) + Len(cache_commands) - 1
        /\ (IterationStep /\ ~QueuesEmpty) =>
             Len(retrieve_commands') + Len(cache_commands')
               = Len(retrieve_commands) + Len(cache_commands) - 1
       ]_vars

\* Both queues are empty after the loop dequeued the last job of a batch, the
\* full-height one.
C23_Witness ==
  /\ QueuesEmpty
  /\ SenderExists
  /\ loop = "check"
  /\ received.type = "Cache"
  /\ received.command.tier = "full"

\* C29: for every document of at least one page, whatever the sequence of
\* increase_page_number and decrease_page_number calls from page 0,
\* current_page_number stays below num_pages, and at most num_pages - 2 when
\* there are two pages or more; the bound check num_pages - 2 never goes below
\* zero.
C29_PageNumberInRange ==
  /\ num_pages >= 1 => current_page_number < num_pages
  /\ num_pages >= 2 => current_page_number <= num_pages - 2
  /\ canvas_status = "ok"

\* What holds of the code: the claim for documents of two pages or more.
CanvasInRangeFromTwoPages ==
  num_pages >= 2 =>
    /\ current_page_number <= num_pages - 2
    /\ canvas_status = "ok"

====
